---- MODULE Spec2Model ----
(***************************************************************************)
(* Model of the browser launcher (gui/launcher.py) and of the main window  *)
(* handlers that drive it (gui/app.py).                                    *)
(*                                                                         *)
(* Everything runs on one asyncio event loop: an action of the model is    *)
(* the code executed between two suspension points (await of real I/O).    *)
(* Awaiting a coroutine that never suspends (_cleanup_profile) does not    *)
(* end an action.                                                          *)
(*                                                                         *)
(* Spec follows the sessions: launches, stops, window closes, the monitor  *)
(* tasks and the table. SpecFp follows the fingerprint record of one       *)
(* profile through the launches of that profile, from the first line of    *)
(* launch_profile to the options handed to the engine. SpecShutdown (and   *)
(* SpecShutdownFair, with the scheduling of the event loop) follows        *)
(* cleanup() after the window close, SpecRecord the record file next to    *)
(* the sessions of its profile, SpecEnv one call of the env sanitizer.     *)
(***************************************************************************)
EXTENDS Integers, Sequences, FiniteSets, Bags, TLC

(***************************************************************************)
(* Bounds of the model.                                                    *)
(***************************************************************************)
\* launch_profile calls made in one behaviour (each may start one browser)
MaxLaunches == 2
\* stop_profile calls that reach the teardown in one behaviour
MaxStops == 1

Profiles == {"p1", "p2"}
\* The table pages the user can switch between: all profiles, or a filtered
\* page that lists p1 only.
Pages == {Profiles, {"p1"}}

\* models.ProfileStatus
STOPPED == "stopped"
STARTING == "starting"
RUNNING == "running"
ERROR == "error"
ProfileStatus == {STOPPED, STARTING, RUNNING, ERROR}

VARIABLES
    status,     \* profile.status of every stored profile
    page,       \* ids of the profiles listed on the current table page
    launches,   \* the launch_profile coroutines, each with the browser it started
    os_type,    \* profile.os_type of the profile whose record is followed
    platform,   \* sys.platform of the process
    fp_file,    \* <data_dir>/<profile id>/fingerprint.json
    fp_launch,  \* the launch_profile call started last, up to the engine start
    cleanup,    \* the BrowserLauncher.cleanup() coroutine of the window close
    sanitize,   \* one call of _remove_screen_window_keys_from_env
    batch       \* the start_all() task of one _batch_start_profiles call

life_vars == <<status, page, launches>>
fp_vars == <<os_type, platform, fp_file, fp_launch>>
aux_vars == <<cleanup, sanitize, batch>>
vars == <<status, page, launches, os_type, platform, fp_file, fp_launch,
          cleanup, sanitize, batch>>

(***************************************************************************)
(* A launch_profile coroutine together with the session it creates.  The   *)
(* coroutines carry no identity of their own, so launches is a bag of      *)
(* records:                                                                *)
(*   pid        the profile id                                             *)
(*   pc         where the coroutine is suspended: "options" (executor,     *)
(*              line 513), "aenter" (531), "new_page" (540), "goto" (552), *)
(*              or "done"                                                  *)
(*   result     what it returned: "true", "false", or "raised"             *)
(*   cbs        the statuses passed to the status callback by the coroutine *)
(*              and by its monitor task                                    *)
(*   ctx        the browser context: "none", "open", "closed"              *)
(*   closer     who closed the context: "user" or "stop"                   *)
(*   monitor    its _monitor_browser task: "none", "waiting", "done"       *)
(*   closed_cb  how often that task called on_browser_closed               *)
(*   in_browsers, in_instances, in_pages                                   *)
(*              whether self._browsers[pid], self._browser_instances[pid], *)
(*              self._pages[pid] currently hold this session's objects     *)
(*   stoppers   stop_profile coroutines suspended in __aexit__ of this     *)
(*              session's camoufox object                                  *)
(*   stop       how those that returned did: n their number, returned the  *)
(*              last return value, cb_stopped whether it made the STOPPED  *)
(*              callback, running_after is_running(pid) when it returned   *)
(***************************************************************************)
NoStop == [n |-> 0, returned |-> "none", cb_stopped |-> FALSE, running_after |-> FALSE]

NewLaunch(p) ==
    [pid |-> p, pc |-> "options", result |-> "none", cbs |-> {},
     ctx |-> "none", closer |-> "none", monitor |-> "none", closed_cb |-> 0,
     in_browsers |-> FALSE, in_instances |-> FALSE, in_pages |-> FALSE,
     stoppers |-> 0, stop |-> NoStop]

Sessions == BagToSet(launches)

RECURSIVE SumOver(_, _)
SumOver(S, f) ==
    IF S = {} THEN 0
    ELSE LET x == CHOOSE y \in S : TRUE IN f[x] + SumOver(S \ {x}, f)

\* The bag b with every record r replaced by g[r].
BagImage(b, g) ==
    LET D == DOMAIN b
    IN IF \A r \in D : g[r] = r THEN b
       ELSE [x \in {g[r] : r \in D} |-> SumOver({r \in D : g[r] = x}, b)]

\* The bag b with one copy of r replaced by r2.
Replace(b, r, r2) == (b (-) SetToBag({r})) (+) SetToBag({r2})

\* launch_profile calls made so far, and stop_profile calls that reached the
\* teardown.
Launched == BagCardinality(launches)
Stopped == SumOver(Sessions, [r \in Sessions |-> launches[r] * (r.stoppers + r.stop.n)])

\* BrowserLauncher.is_running: profile_id in self._browser_instances
is_running_in(b, p) == \E r \in BagToSet(b) : r.pid = p /\ r.in_instances
is_running(p) == is_running_in(launches, p)

\* BrowserLauncher.is_stopping is called by MainWindow._stop_profile but is
\* defined nowhere in the launcher: a lookup in the transitional-state set,
\* which no code of the launcher ever fills.
stopping_set == {}
is_stopping(p) == p \in stopping_set

\* BrowserLauncher._cleanup_profile: del the entries of p in the three dicts.
cleanup_profile(b, p) ==
    BagImage(b, [r \in DOMAIN b |->
        IF r.pid = p
        THEN [r EXCEPT !.in_browsers = FALSE, !.in_instances = FALSE, !.in_pages = FALSE]
        ELSE r])

\* Lines 533-534: self._browsers[p] = camoufox; self._browser_instances[p] =
\* context. Whatever the two dicts held for p is overwritten.
register_browser(b, p) ==
    BagImage(b, [r \in DOMAIN b |->
        IF r.pid = p THEN [r EXCEPT !.in_browsers = FALSE, !.in_instances = FALSE] ELSE r])

\* Line 558: self._pages[p] = page
register_page(b, p) ==
    BagImage(b, [r \in DOMAIN b |-> IF r.pid = p THEN [r EXCEPT !.in_pages = FALSE] ELSE r])

\* MainWindow._on_status_change: profile.status = status
on_status_change(st, p, s) == [st EXCEPT ![p] = s]

\* MainWindow._refresh_table: the status of every profile on the current
\* page is recomputed from is_running alone; ERROR is the only status kept.
refresh_table(st, b, pg) ==
    [p \in Profiles |->
        IF p \in pg
        THEN IF is_running_in(b, p) THEN RUNNING
             ELSE IF st[p] = ERROR THEN ERROR ELSE STOPPED
        ELSE st[p]]

LifeInit ==
    /\ status = [p \in Profiles |-> STOPPED]
    /\ page = Profiles
    /\ launches = EmptyBag

(***************************************************************************)
(* launch_profile                                                          *)
(***************************************************************************)

\* An exception that escapes launch_profile: no callback, and _start_profile
\* ends with it.
launch_raises(r, b, st) ==
    /\ launches' = b (+) SetToBag({[r EXCEPT !.pc = "done", !.result = "raised"]})
    /\ status' = st

\* The except branch of launch_profile (lines 568-572: status callback ERROR,
\* return False) followed by the caller's "if not success" branch in
\* _start_profile (STOPPED, _refresh_table). r is the coroutine, b the other
\* coroutines, st the statuses at that moment.
launch_failed(r, b, st) ==
    LET p == r.pid
        r2 == [r EXCEPT !.pc = "done", !.result = "false", !.cbs = @ \cup {ERROR}]
        st1 == on_status_change(st, p, ERROR)
        st2 == [st1 EXCEPT ![p] = STOPPED]
    IN /\ launches' = b (+) SetToBag({r2})
       /\ status' = refresh_table(st2, launches', page)

\* Lines 558-566: register the page, spawn the monitor task, status callback
\* RUNNING, return True (the caller does nothing more on success).
launch_finish(r, b) ==
    LET p == r.pid
        r2 == [r EXCEPT !.pc = "done", !.result = "true", !.cbs = @ \cup {RUNNING},
                        !.monitor = "waiting", !.in_pages = TRUE]
    IN /\ launches' = register_page(b, p) (+) SetToBag({r2})
       /\ status' = on_status_change(status, p, RUNNING)

\* MainWindow._start_profile up to the first suspension of launch_profile
\* (run_in_executor, line 513). Everything before it is synchronous: the two
\* guards, STARTING + _refresh_table, then directory creation, the geo lookup
\* and the fingerprint record. fail names the step that raised, if any.
start_profile(p, fail) ==
    /\ Launched < MaxLaunches
    /\ ~is_running(p)
    /\ status[p] # STARTING
    /\ LET st1 == refresh_table([status EXCEPT ![p] = STARTING], launches, page)
       IN IF fail = "none"
          THEN /\ launches' = launches (+) SetToBag({NewLaunch(p)})
               /\ status' = st1
          ELSE launch_failed(NewLaunch(p), launches, st1)

StartProfile(p, fail) ==
    /\ start_profile(p, fail)
    /\ UNCHANGED page
    /\ UNCHANGED fp_vars
    /\ UNCHANGED aux_vars

\* camoufox_launch_options returned (or raised) in the executor; the env is
\* sanitized and AsyncCamoufox.__aenter__ is awaited (line 531).
LaunchOptionsDone(r, ok) ==
    /\ r.pc = "options"
    /\ IF ok
       THEN /\ launches' = Replace(launches, r, [r EXCEPT !.pc = "aenter"])
            /\ UNCHANGED status
       ELSE launch_failed(r, launches (-) SetToBag({r}), status)
    /\ UNCHANGED page
    /\ UNCHANGED fp_vars
    /\ UNCHANGED aux_vars

\* __aenter__ returned the context (or raised). The handle is registered at
\* once (lines 533-534); then the page is taken from context.pages or created
\* (await new_page), and the start page may be loaded (await goto).
EngineStarted(r, ok, has_pages, nav) ==
    /\ r.pc = "aenter"
    /\ LET p == r.pid
           rest == launches (-) SetToBag({r})
           r2 == [r EXCEPT !.ctx = "open", !.in_browsers = TRUE, !.in_instances = TRUE]
       IN IF ~ok
          THEN launch_failed(r, rest, status)
          ELSE IF ~has_pages
          THEN /\ launches' = register_browser(rest, p)
                                (+) SetToBag({[r2 EXCEPT !.pc = "new_page"]})
               /\ UNCHANGED status
          ELSE IF nav
          THEN /\ launches' = register_browser(rest, p)
                                (+) SetToBag({[r2 EXCEPT !.pc = "goto"]})
               /\ UNCHANGED status
          ELSE launch_finish(r2, register_browser(rest, p))
    /\ UNCHANGED page
    /\ UNCHANGED fp_vars
    /\ UNCHANGED aux_vars

\* context.new_page() returned or raised (it raises on a closed context).
NewPageDone(r, ok, nav) ==
    /\ r.pc = "new_page"
    /\ ok => r.ctx = "open"
    /\ LET rest == launches (-) SetToBag({r})
       IN IF ~ok
          THEN launch_failed(r, rest, status)
          ELSE IF nav
          THEN /\ launches' = rest (+) SetToBag({[r EXCEPT !.pc = "goto"]})
               /\ UNCHANGED status
          ELSE launch_finish(r, rest)
    /\ UNCHANGED page
    /\ UNCHANGED fp_vars
    /\ UNCHANGED aux_vars

\* page.goto returned or raised; the exception is caught (lines 551-556).
GotoDone(r) ==
    /\ r.pc = "goto"
    /\ launch_finish(r, launches (-) SetToBag({r}))
    /\ UNCHANGED page
    /\ UNCHANGED fp_vars
    /\ UNCHANGED aux_vars

(***************************************************************************)
(* The browser window and the monitor task                                 *)
(***************************************************************************)

\* The user closes the browser window (or the browser exits by itself).
UserClose(r) ==
    /\ r.ctx = "open"
    /\ launches' = Replace(launches, r, [r EXCEPT !.ctx = "closed", !.closer = "user"])
    /\ UNCHANGED <<status, page>>
    /\ UNCHANGED fp_vars
    /\ UNCHANGED aux_vars

\* _monitor_browser: wait_for_event("close") returned; the finally block
\* cleans up and calls on_browser_closed when the profile id is (still) in
\* _browser_instances. MainWindow._on_browser_closed sets STOPPED and
\* refreshes the table.
monitor_browser(r) ==
    LET p == r.pid
    IN IF is_running(p)
       THEN /\ launches' = cleanup_profile(
                    Replace(launches, r,
                            [r EXCEPT !.monitor = "done", !.closed_cb = @ + 1]), p)
            /\ status' = refresh_table([status EXCEPT ![p] = STOPPED], launches', page)
       ELSE /\ launches' = Replace(launches, r, [r EXCEPT !.monitor = "done"])
            /\ UNCHANGED status

MonitorWake(r) ==
    /\ r.monitor = "waiting"
    /\ r.ctx = "closed"
    /\ monitor_browser(r)
    /\ UNCHANGED page
    /\ UNCHANGED fp_vars
    /\ UNCHANGED aux_vars

(***************************************************************************)
(* stop_profile                                                            *)
(***************************************************************************)

\* stop_profile without the inner try: the exception of __aexit__ reaches the
\* outer handler, which returns False before the cleanup.
stop_profile_unguarded(r, raised) ==
    LET p == r.pid
        b == IF raised THEN launches ELSE cleanup_profile(launches, p)
        r1 == IF raised THEN r
              ELSE [r EXCEPT !.in_browsers = FALSE, !.in_instances = FALSE,
                             !.in_pages = FALSE]
        r2 == [r1 EXCEPT !.stoppers = @ - 1,
                         !.stop = [n |-> @.n + 1,
                                   returned |-> IF raised THEN "false" ELSE "true",
                                   cb_stopped |-> ~raised,
                                   running_after |-> is_running_in(b, p)]]
    IN /\ launches' = Replace(b, r1, r2)
       /\ status' = refresh_table(
                        IF raised THEN [status EXCEPT ![p] = ERROR]
                        ELSE on_status_change(status, p, STOPPED), launches', page)

\* stop_profile after the teardown attempt on session r (lines 687-695): the
\* exception of __aexit__ is logged, _cleanup_profile removes the handle,
\* status callback STOPPED, return True; then the caller refreshes the table.
stop_profile_resume(r, raised) ==
    LET p == r.pid
        b == cleanup_profile(launches, p)
        r1 == [r EXCEPT !.in_browsers = FALSE, !.in_instances = FALSE, !.in_pages = FALSE]
        r2 == [r1 EXCEPT !.stoppers = @ - 1,
                         !.stop = [n |-> @.n + 1, returned |-> "true", cb_stopped |-> TRUE,
                                   running_after |-> is_running_in(b, p)]]
    IN /\ launches' = Replace(b, r1, r2)
       /\ status' = refresh_table(on_status_change(status, p, STOPPED), launches', page)

\* MainWindow._stop_profile up to the suspension in stop_profile (await
\* __aexit__ of the camoufox object registered for p, line 686).
StopProfile(p) ==
    /\ ~is_stopping(p)
    /\ IF ~is_running(p)
       THEN /\ status' = refresh_table([status EXCEPT ![p] = STOPPED], launches, page)
            /\ UNCHANGED launches
       ELSE /\ Stopped < MaxStops
            /\ \E r \in Sessions :
                /\ r.pid = p /\ r.in_browsers
                /\ launches' = Replace(launches, r, [r EXCEPT !.stoppers = @ + 1])
            /\ UNCHANGED status
    /\ UNCHANGED page
    /\ UNCHANGED fp_vars
    /\ UNCHANGED aux_vars

\* During __aexit__ the engine closes the browser context; the context's
\* "close" event fires at this point, before __aexit__ has returned.
TeardownCloses(r) ==
    /\ r.stoppers > 0
    /\ r.ctx = "open"
    /\ launches' = Replace(launches, r, [r EXCEPT !.ctx = "closed", !.closer = "stop"])
    /\ UNCHANGED <<status, page>>
    /\ UNCHANGED fp_vars
    /\ UNCHANGED aux_vars

\* __aexit__ returned, or raised. When it returns the context is closed; when
\* it raises the browser is in whatever state the failed teardown left it.
StopResume(r, raised) ==
    /\ r.stoppers > 0
    /\ ~raised => r.ctx = "closed"
    /\ stop_profile_resume(r, raised)
    /\ UNCHANGED page
    /\ UNCHANGED fp_vars
    /\ UNCHANGED aux_vars

(***************************************************************************)
(* The table                                                               *)
(***************************************************************************)

\* Any handler that ends in _refresh_table(): page change, filter, search.
\* pg is the set of profiles listed afterwards.
SelectPage(pg) ==
    /\ page' = pg
    /\ status' = refresh_table(status, launches, pg)
    /\ UNCHANGED launches
    /\ UNCHANGED fp_vars
    /\ UNCHANGED aux_vars

(***************************************************************************)
(* Dictionaries and JSON text                                              *)
(*                                                                         *)
(* A Python dict with string keys is a sequence of <<key, value>> pairs    *)
(* with distinct keys, in insertion order.  A JSON text is a sequence of   *)
(* tokens: an opening brace, one <<key, value>> token per member, a        *)
(* closing brace.  A nested dict is carried as the text of its own dump.   *)
(***************************************************************************)
Keys(d) == {d[i][1] : i \in DOMAIN d}
Has(d, k) == k \in Keys(d)
\* d[k]
Get(d, k) == d[CHOOSE i \in DOMAIN d : d[i][1] = k][2]
\* d.pop(k, None), del d[k]
Pop(d, k) == SelectSeq(d, LAMBDA e : e[1] # k)
\* d[k] = v: an existing key keeps its position
Put(d, k, v) ==
    IF Has(d, k)
    THEN [i \in DOMAIN d |-> IF d[i][1] = k THEN <<k, v>> ELSE d[i]]
    ELSE Append(d, <<k, v>>)

RECURSIVE PopAll(_, _)
PopAll(d, ks) == IF ks = <<>> THEN d ELSE PopAll(Pop(d, Head(ks)), Tail(ks))

RECURSIVE PutAll(_, _)
PutAll(d, es) ==
    IF es = <<>> THEN d ELSE PutAll(Put(d, Head(es)[1], Head(es)[2]), Tail(es))

LBrace == <<"{", "{">>
RBrace == <<"}", "}">>

\* json.dumps / orjson.dumps of a dict: the members in dict order
dumps(d) == <<LBrace>> \o d \o <<RBrace>>

\* Insignificant whitespace between two tokens of a JSON text.
Space == <<" ", 0>>

\* json.loads / orjson.loads: whitespace between the tokens is skipped; ok is
\* FALSE where the parser raises; a repeated key keeps its first position and
\* its last value.
loads(text) ==
    LET tokens == SelectSeq(text, LAMBDA e : e[1] # " ")
        n == Len(tokens)
        wellformed ==
            /\ n >= 2
            /\ tokens[1] = LBrace
            /\ tokens[n] = RBrace
            /\ \A i \in 2..(n - 1) : tokens[i][1] \notin {"{", "}"}
    IN IF wellformed
       THEN [ok |-> TRUE, value |-> PutAll(<<>>, SubSeq(tokens, 2, n - 1))]
       ELSE [ok |-> FALSE, value |-> <<>>]

\* "".join(chunks)
RECURSIVE join(_)
join(chunks) == IF chunks = <<>> THEN <<>> ELSE Head(chunks) \o join(Tail(chunks))

\* [text[start : start + size] for start in range(0, len(text), size)]
RECURSIVE split(_, _)
split(text, size) ==
    IF text = <<>> THEN <<>>
    ELSE IF Len(text) <= size THEN <<text>>
    ELSE <<SubSeq(text, 1, size)>> \o split(SubSeq(text, size + 1, Len(text)), size)

(***************************************************************************)
(* _remove_screen_window_keys_from_env                                     *)
(***************************************************************************)
\* launcher.SCREEN_WINDOW_KEYS_TO_EXCLUDE
SCREEN_WINDOW_KEYS_TO_EXCLUDE ==
    {"window.outerWidth", "window.outerHeight", "window.innerWidth",
     "window.innerHeight", "window.screenX", "window.screenY",
     "screen.width", "screen.height", "screen.availWidth", "screen.availHeight",
     "screen.availTop", "screen.availLeft", "screen.colorDepth",
     "screen.pixelDepth", "document.body.clientWidth",
     "document.body.clientHeight"}

\* The filter deletes one key too many: window.devicePixelRatio is not in
\* the exclusion set.
remove_excluded_wide(d) ==
    SelectSeq(d, LAMBDA e : e[1] \notin SCREEN_WINDOW_KEYS_TO_EXCLUDE
                                         \cup {"window.devicePixelRatio"})

\* The loops of lines 356-358 and 469-471 (and 71-74): delete the excluded
\* top-level keys.
remove_excluded(d) == SelectSeq(d, LAMBDA e : e[1] \notin SCREEN_WINDOW_KEYS_TO_EXCLUDE)

\* The chunk sizes count tokens here: 2047 characters on win32, 32767
\* elsewhere, scaled to the size of the modelled documents.
ChunkWin32 == 2
ChunkOther == 4
chunk_size(plat) == IF plat = "win32" THEN ChunkWin32 ELSE ChunkOther

\* f"CAMOU_CONFIG_{i}": the name of slot i. The names of an env dict are
\* pairs, <<"CAMOU_CONFIG_", i>> for the slots and <<name, 0>> for the rest.
CAMOU_CONFIG(i) == <<"CAMOU_CONFIG_", i>>

\* Lines 51-55: the values of slots 1, 2, ... up to the first missing one.
RECURSIVE collect_chunks(_, _)
collect_chunks(env, i) ==
    IF Has(env, CAMOU_CONFIG(i))
    THEN <<Get(env, CAMOU_CONFIG(i))>> \o collect_chunks(env, i + 1)
    ELSE <<>>

\* The old chunks are left in the env.
clear_chunks_skipped(env, i) == env

\* Lines 83-84: for j in range(1, i): del env[f"CAMOU_CONFIG_{j}"]
clear_chunks(env, i) == PopAll(env, [j \in 1..(i - 1) |-> CAMOU_CONFIG(j)])

\* Lines 90-92: env[f"CAMOU_CONFIG_{j + 1}"] = chunk, for the chunks from
\* index j on.
RECURSIVE set_chunks(_, _, _)
set_chunks(env, chunks, j) ==
    IF j > Len(chunks) THEN env
    ELSE set_chunks(Put(env, CAMOU_CONFIG(j), chunks[j]), chunks, j + 1)

\* env is a dict: the sequence of its <<name, value>> entries.
remove_screen_window_keys_from_env(env, plat) ==
    LET chunks == collect_chunks(env, 1)
        i == Len(chunks) + 1
    IN IF chunks = <<>> THEN env
       ELSE LET config == loads(join(chunks))
            IN IF ~config.ok THEN env
               ELSE LET new_config_str == dumps(remove_excluded(config.value))
                    IN set_chunks(clear_chunks(env, i),
                                  split(new_config_str, chunk_size(plat)), 1)

(***************************************************************************)
(* The fingerprint stage of launch_profile (lines 136-521)                 *)
(***************************************************************************)
OsTypes == {"windows", "macos", "linux"}
Platforms == {"win32", "linux"}

\* os_short_map.get(profile.os_type, "win")
os_short_map(o) ==
    IF o = "windows" THEN "win"
    ELSE IF o = "macos" THEN "mac"
    ELSE IF o = "linux" THEN "lin"
    ELSE "win"

\* profile.os_type or "windows"
os_or_windows(o) == IF o = "" THEN "windows" ELSE o

\* What get_geolocation(ip) can return: timezone, locale.region (may be
\* empty), latitude and longitude (degrees, rounded).
Geolocations ==
    {[timezone |-> "Europe/Warsaw", region |-> "PL", latitude |-> 52, longitude |-> 21],
     [timezone |-> "Europe/Berlin", region |-> "DE", latitude |-> 52, longitude |-> 13],
     [timezone |-> "Africa/Accra", region |-> "", latitude |-> 5, longitude |-> 0]}

\* The outcome of the lookup: <<>> when it raised (geoip_info stays None).
GeoResults == {<<>>} \cup {<<g>> : g \in Geolocations}

GeoIPInfoCompat(geolocation) ==
    [country_code |-> IF geolocation.region = "" THEN "XX" ELSE geolocation.region,
     timezone |-> geolocation.timezone,
     lat |-> geolocation.latitude,
     lon |-> geolocation.longitude]

\* country_to_lang.get(country_code, "en")
country_to_lang(code) ==
    LET table == <<
            <<"RU", "ru">>, <<"US", "en">>, <<"GB", "en">>, <<"DE", "de">>,
            <<"FR", "fr">>, <<"ES", "es">>, <<"IT", "it">>, <<"PT", "pt">>,
            <<"NL", "nl">>, <<"PL", "pl">>, <<"UA", "uk">>, <<"BY", "be">>,
            <<"KZ", "kk">>, <<"CN", "zh">>, <<"JP", "ja">>, <<"KR", "ko">>,
            <<"BR", "pt">>, <<"AR", "es">>, <<"MX", "es">>, <<"IN", "hi">>,
            <<"TR", "tr">>, <<"SA", "ar">>, <<"IL", "he">>, <<"TH", "th">>,
            <<"VN", "vi">> >>
    IN IF Has(table, code) THEN Get(table, code) ELSE "en"

\* A timezone already in the config wins over the one of the lookup.
apply_geo_keeping(c, info) ==
    LET c1 == IF Has(c, "timezone") THEN c ELSE Put(c, "timezone", info.timezone)
        c2 == IF info.lat # 0 /\ info.lon # 0
              THEN Put(Put(c1, "geolocation:latitude", info.lat),
                       "geolocation:longitude", info.lon)
              ELSE c1
        c3 == Put(c2, "locale:region", info.country_code)
    IN Put(c3, "locale:language", country_to_lang(info.country_code))

\* "if geoip_info:" of both branches: timezone, coordinates (when both are
\* truthy), region and language of the current lookup.
apply_geo(c, info) ==
    LET c1 == Put(c, "timezone", info.timezone)
        c2 == IF info.lat # 0 /\ info.lon # 0
              THEN Put(Put(c1, "geolocation:latitude", info.lat),
                       "geolocation:longitude", info.lon)
              ELSE c1
        c3 == Put(c2, "locale:region", info.country_code)
    IN Put(c3, "locale:language", country_to_lang(info.country_code))

\* Only the timezone is popped: the stored coordinates stay.
strip_refreshable_timezone(c) == PopAll(c, <<"locale:timezone", "timezone">>)

\* The pops also take the user agent.
strip_refreshable_wide(c) ==
    PopAll(c, <<"locale:timezone", "timezone", "geolocation:latitude",
                "geolocation:longitude", "locale:region", "locale:language",
                "navigator.userAgent">>)

\* Lines 309-314: the six pops of the load branch.
strip_refreshable(c) ==
    PopAll(c, <<"locale:timezone", "timezone", "geolocation:latitude",
                "geolocation:longitude", "locale:region", "locale:language">>)

\* Lines 362-367: the noise values of the record go back into the config.
restore_random(c, fp_data) ==
    LET c1 == IF Has(fp_data, "canvas")
              THEN Put(c, "canvas:aaOffset", Get(fp_data, "canvas")) ELSE c
        c2 == IF Has(fp_data, "fonts")
              THEN Put(c1, "fonts:spacing_seed", Get(fp_data, "fonts")) ELSE c1
    IN IF Has(fp_data, "history_length")
       THEN Put(c2, "window.history.length", Get(fp_data, "history_length")) ELSE c2

\* The noise values are restored only under "if geoip_info:".
load_fingerprint_geo_only(fp_data, geoip_info) ==
    LET stored == IF Has(fp_data, "fingerprint")
                  THEN loads(Get(fp_data, "fingerprint")).value ELSE <<>>
        c1 == strip_refreshable(stored)
    IN IF geoip_info # <<>>
       THEN restore_random(remove_excluded(apply_geo(c1, geoip_info[1])), fp_data)
       ELSE remove_excluded(c1)

\* Lines 305-371: the config of the load branch. geoip_info is <<>> or
\* <<info>>.
load_fingerprint(fp_data, geoip_info) ==
    LET stored == IF Has(fp_data, "fingerprint")
                  THEN loads(Get(fp_data, "fingerprint")).value ELSE <<>>
        c1 == strip_refreshable(stored)
        c2 == IF geoip_info # <<>> THEN apply_geo(c1, geoip_info[1]) ELSE c1
    IN restore_random(remove_excluded(c2), fp_data)

\* The user agent as the words of the string.
OsToken(o) ==
    IF o = "windows" THEN "Windows NT 10.0; Win64; x64"
    ELSE IF o = "macos" THEN "Macintosh; Intel Mac OS X 10.15"
    ELSE "X11; Linux x86_64"
UserAgent(o, version) ==
    <<"Mozilla/5.0", OsToken(o), "rv:", version, "Gecko/20100101", "Firefox/", version>>

\* re.sub(marker + r"\d+\.\d+", marker + new, ua)
re_sub_version(ua, marker, new) ==
    [i \in DOMAIN ua |-> IF i > 1 /\ ua[i - 1] = marker THEN new ELSE ua[i]]

\* What the generator can hand out: the Firefox version of the user agent,
\* whether the fingerprint carries screen/window geometry, whether it carries
\* a timezone of its own.
Fingerprints ==
    {[version |-> "140.0", screen |-> TRUE, tz |-> FALSE],
     [version |-> "135.0", screen |-> FALSE, tz |-> TRUE]}

\* from_browserforge(generator.generate()) for the OS o
from_browserforge(o, fingerprint) ==
    << <<"navigator.userAgent", UserAgent(o, fingerprint.version)>>,
       <<"navigator.oscpu", OsToken(o)>> >>
    \o (IF fingerprint.screen
        THEN << <<"screen.width", 1920>>, <<"window.innerWidth", 1280>> >> ELSE <<>>)
    \o (IF fingerprint.tz THEN << <<"timezone", "UTC">> >> ELSE <<>>)

\* randint(-50, 50), randint(0, 1_073_741_823), randrange(1, 6): the ends of
\* the three ranges.
Noise == {<<-50, 0, 1>>, <<50, 1073741823, 5>>}

\* sample_webgl(os): the vendor/renderer pairs on offer for an OS code
sample_webgl(short) ==
    IF short = "win"
    THEN {<<"Google Inc. (NVIDIA)", "ANGLE (NVIDIA GeForce)">>,
          <<"Google Inc. (Intel)", "ANGLE (Intel UHD)">>}
    ELSE IF short = "mac" THEN {<<"Apple", "Apple M1">>}
    ELSE {<<"Mesa", "llvmpipe">>}

\* Lines 390-471: the config of the generate branch.
generate_fingerprint(o, fingerprint, noise, geoip_info) ==
    LET c0 == from_browserforge(o, fingerprint)
        c1 == Put(Put(Put(c0, "canvas:aaOffset", noise[1]),
                      "fonts:spacing_seed", noise[2]),
                  "window.history.length", noise[3])
        c2 == IF Has(c1, "navigator.userAgent")
              THEN Put(c1, "navigator.userAgent",
                       re_sub_version(
                           re_sub_version(Get(c1, "navigator.userAgent"),
                                          "Firefox/", "135.0"),
                           "rv:", "135.0"))
              ELSE c1
        c3 == IF geoip_info # <<>> THEN apply_geo(c2, geoip_info[1]) ELSE c2
    IN remove_excluded(c3)

\* Lines 484-498: fp_data as written to the file (the one-member dicts
\* "canvas" and "fonts" are carried as their value, "webgl" as the pair).
new_record(c, gl, noise, o) ==
    << <<"fingerprint", dumps(c)>>, <<"webgl", gl>>, <<"canvas", noise[1]>>,
       <<"fonts", noise[2]>>, <<"history_length", noise[3]>>,
       <<"os", os_or_windows(o)>> >>

\* What the launch-option generator can add to the config it is given: a
\* fingerprint of its own with geometry and a timezone, or nothing of note.
LaunchOptionExtras ==
    {<< <<"navigator.hardwareConcurrency", 8>>, <<"screen.width", 1366>>,
        <<"window.outerHeight", 768>>, <<"timezone", "UTC">> >>,
     << <<"navigator.hardwareConcurrency", 8>> >>}

\* camoufox_launch_options(config=..., webgl_config=...), as far as the env it
\* returns goes: the keys of the config given are kept ("merge_into() won't
\* overwrite our existing keys"), the generator's own are added, the GPU pair
\* is set, and the dump is cut into the CAMOU_CONFIG_i values.
camoufox_launch_options(config, webgl_config, extra, plat) ==
    LET missing == SelectSeq(extra, LAMBDA e : ~Has(config, e[1]))
        c1 == config \o missing
        c2 == IF webgl_config = <<>> THEN c1
              ELSE Put(Put(c1, "webGl:vendor", webgl_config[1]),
                       "webGl:renderer", webgl_config[2])
    IN set_chunks(<<>>, split(dumps(c2), chunk_size(plat)), 1)

\* The file system entry: whether the file exists, and its text.
NoFile == [exists |-> FALSE, text |-> <<>>]

\* fp_launch before any launch. pc is "options" while the call waits for the
\* executor (line 513), "aenter" once the sanitized options are handed to the
\* engine (line 531), "failed" after the except branch, failed_at the step
\* that raised; found is what the stage saw on disk ("absent", "corrupt",
\* "record"), regenerate its flag of line 291, branch the branch of line 303
\* ("load" or "generate"), os the os_type it read, geo the lookup's outcome,
\* config / webgl_config / env what it built.
NoFpLaunch ==
    [pc |-> "none", failed_at |-> "none", found |-> "none", regenerate |-> FALSE,
     branch |-> "none", os |-> "", geo |-> <<>>, config |-> <<>>,
     webgl_config |-> <<>>, env |-> <<>>]

\* The OS comparison never asks for a new fingerprint.
os_unchanged_always(saved_os, current_os) == FALSE

\* Line 296: saved_os != current_os
os_changed(saved_os, current_os) == saved_os # current_os

\* launch_profile from its first line to the suspension at the executor
\* (lines 136-513); all of it is synchronous. fail names a step that raises
\* by itself ("mkdir", which exist_ok rules out once the directory with the
\* record is there; "fingerprint": the generator, in the generate branch),
\* geo is the outcome of the lookup. The generate branch draws what the
\* generator, the random source and sample_webgl return.
resolve_fingerprint(fail, geo) ==
    LET geoip_info == IF geo = <<>> THEN <<>> ELSE <<GeoIPInfoCompat(geo[1])>>
        start == [NoFpLaunch EXCEPT !.os = os_type, !.geo = geoip_info]
        parsed == loads(fp_file.text)
        fp_data == parsed.value
        saved_os == IF Has(fp_data, "os") THEN Get(fp_data, "os") ELSE ""
        regenerate == fp_file.exists /\ os_changed(saved_os, os_or_windows(os_type))
        seen == [start EXCEPT !.found = IF fp_file.exists THEN "record" ELSE "absent",
                              !.regenerate = regenerate]
        generates == ~fp_file.exists \/ (parsed.ok /\ regenerate)
    IN /\ fail = "mkdir" => ~fp_file.exists
       /\ fail = "fingerprint" => generates
       /\ IF fail = "mkdir"
          THEN /\ fp_launch' = [start EXCEPT !.pc = "failed", !.failed_at = "mkdir"]
               /\ UNCHANGED fp_file
          ELSE IF fp_file.exists /\ ~parsed.ok
          THEN \* json.loads raises at line 293
               /\ fp_launch' = [start EXCEPT !.pc = "failed", !.failed_at = "record",
                                             !.found = "corrupt"]
               /\ UNCHANGED fp_file
          ELSE IF fp_file.exists /\ ~regenerate
          THEN /\ fp_launch' =
                    [seen EXCEPT !.pc = "options", !.branch = "load",
                                 !.config = load_fingerprint(fp_data, geoip_info),
                                 !.webgl_config = IF Has(fp_data, "webgl")
                                                  THEN Get(fp_data, "webgl") ELSE <<>>]
               /\ UNCHANGED fp_file
          ELSE IF fail = "fingerprint"
          THEN \* the old record is already unlinked (line 301)
               /\ fp_launch' = [seen EXCEPT !.pc = "failed", !.failed_at = "fingerprint",
                                            !.branch = "generate"]
               /\ fp_file' = NoFile
          ELSE \E fingerprint \in Fingerprints, noise \in Noise,
                  gl \in sample_webgl(os_short_map(os_type)) :
                LET c == generate_fingerprint(os_or_windows(os_type), fingerprint,
                                              noise, geoip_info)
                IN /\ fp_launch' = [seen EXCEPT !.pc = "options", !.branch = "generate",
                                                !.config = c, !.webgl_config = gl]
                   /\ fp_file' = [exists |-> TRUE,
                                  text |-> dumps(new_record(c, gl, noise, os_type))]

FpResolve(fail, geo) ==
    /\ resolve_fingerprint(fail, geo)
    /\ UNCHANGED <<os_type, platform>>
    /\ UNCHANGED life_vars
    /\ UNCHANGED aux_vars

\* The executor returns the launch options (or raises); the env is sanitized
\* and handed to the engine (lines 513-531).
FpOptionsDone(ok, extra) ==
    /\ fp_launch.pc = "options"
    /\ fp_launch' =
            IF ok
            THEN [fp_launch EXCEPT
                    !.pc = "aenter",
                    !.env = remove_screen_window_keys_from_env(
                                camoufox_launch_options(fp_launch.config,
                                    fp_launch.webgl_config, extra, platform),
                                platform)]
            ELSE [fp_launch EXCEPT !.pc = "failed", !.failed_at = "options"]
    /\ UNCHANGED <<os_type, platform, fp_file>>
    /\ UNCHANGED life_vars
    /\ UNCHANGED aux_vars

\* MainWindow._edit_profile: the popup returns the profile with the OS chosen
\* and whether to regenerate; the record is deleted on request, then the
\* profile is stored and the table refreshed.
EditProfile(o, should_regenerate) ==
    /\ os_type' = o
    /\ fp_file' = IF should_regenerate /\ fp_file.exists THEN NoFile ELSE fp_file
    /\ status' = refresh_table(status, launches, page)
    /\ UNCHANGED <<page, launches, platform, fp_launch>>
    /\ UNCHANGED aux_vars

\* A record as an earlier launch left it: the fingerprint still carries
\* screen geometry next to the timezone and locale of that launch.
StoredRecord ==
    << <<"fingerprint",
         dumps(<< <<"navigator.userAgent", UserAgent("windows", "135.0")>>,
                  <<"navigator.oscpu", OsToken("windows")>>,
                  <<"screen.width", 1920>>,
                  <<"timezone", "Europe/Warsaw">>,
                  <<"locale:region", "PL">>,
                  <<"locale:language", "pl">> >>)>>,
       <<"webgl", <<"Google Inc. (Intel)", "ANGLE (Intel UHD)">> >>,
       <<"canvas", 7>>, <<"fonts", 12345>>, <<"history_length", 3>>,
       <<"os", "windows">> >>

\* The files launch_profile can find: none, a record, a record whose write
\* was cut short.
InitialFiles ==
    {NoFile,
     [exists |-> TRUE, text |-> dumps(StoredRecord)],
     [exists |-> TRUE, text |-> SubSeq(dumps(StoredRecord), 1, 3)]}

FpIdle ==
    /\ os_type = "macos"
    /\ platform = "linux"
    /\ fp_file = NoFile
    /\ fp_launch = NoFpLaunch

\* cleanup() before the window is closed:
\*   pc       "idle", "teardown" (suspended in stop_profile, line 707), "done"
\*   keys     list(self._browser_instances.keys()) taken at line 706
\*   i        index in keys of the profile being stopped
\*   hung     the awaited __aexit__ never returns
\*   handled  the profiles whose stop_profile reached _cleanup_profile
\*   failures teardowns that raised
\*   quiet    no launch_profile was in flight when cleanup() was called
NoCleanup ==
    [pc |-> "idle", keys |-> <<>>, i |-> 0, hung |-> FALSE, handled |-> {},
     failures |-> 0, quiet |-> FALSE]

\* No call of the sanitizer: env its argument, out what it returned.
NoSanitize == [pc |-> "idle", env |-> <<>>, plat |-> "linux", out |-> <<>>]

\* asyncio.Semaphore(5) of start_all (app.py 973)
MaxConcurrentStarts == 5
\* The profiles selected for a batch start
BatchSize == 7
BatchIds == 1..BatchSize

\* No batch start yet:
\*   pc       "idle", "running" (start_all waits in gather), "done"
\*   value    the counter of the semaphore
\*   waiters  the start_one tasks queued on the semaphore, oldest first
\*   task     per selected profile, where its start_one task is: "none" (no
\*            task), "ready" (created, not yet run), "waiting" (queued on
\*            the semaphore), "woken" (given a slot by a release, not yet
\*            resumed), "starting" (inside "async with", awaiting
\*            _start_profile), "done"
NoBatch ==
    [pc |-> "idle", value |-> MaxConcurrentStarts, waiters |-> <<>>,
     task |-> [i \in BatchIds |-> "none"]]

AuxIdle ==
    /\ cleanup = NoCleanup
    /\ sanitize = NoSanitize
    /\ batch = NoBatch

Init == LifeInit /\ FpIdle /\ AuxIdle

FpInit ==
    /\ LifeInit
    /\ os_type \in OsTypes
    /\ platform \in Platforms
    /\ fp_file \in InitialFiles
    /\ fp_launch = NoFpLaunch
    /\ AuxIdle

FpNext ==
    \/ \E fail \in {"none", "mkdir", "fingerprint"}, geo \in GeoResults :
            FpResolve(fail, geo)
    \/ \E ok \in BOOLEAN, extra \in LaunchOptionExtras : FpOptionsDone(ok, extra)
    \/ \E o \in OsTypes, should_regenerate \in BOOLEAN : EditProfile(o, should_regenerate)

SpecFp == FpInit /\ [][FpNext]_vars

Next ==
    \/ \E p \in Profiles, fail \in {"none", "mkdir", "record", "fingerprint"} :
            StartProfile(p, fail)
    \/ \E r \in Sessions, ok \in BOOLEAN : LaunchOptionsDone(r, ok)
    \/ \E r \in Sessions, ok \in BOOLEAN, has_pages \in BOOLEAN, nav \in BOOLEAN :
            EngineStarted(r, ok, has_pages, nav)
    \/ \E r \in Sessions, ok \in BOOLEAN, nav \in BOOLEAN : NewPageDone(r, ok, nav)
    \/ \E r \in Sessions : GotoDone(r)
    \/ \E r \in Sessions : UserClose(r)
    \/ \E r \in Sessions : MonitorWake(r)
    \/ \E p \in Profiles : StopProfile(p)
    \/ \E r \in Sessions : TeardownCloses(r)
    \/ \E r \in Sessions, raised \in BOOLEAN : StopResume(r, raised)
    \/ \E pg \in Pages : SelectPage(pg)

Spec == Init /\ [][Next]_vars

(***************************************************************************)
(* Shutdown: MainWindow.closeEvent spawns BrowserLauncher.cleanup(), which *)
(* stops the profiles of a snapshot of the handle table one after another. *)
(***************************************************************************)

\* The orders in which a dict can list the keys S.
Orders(S) ==
    {seq \in [1..Cardinality(S) -> S] :
        \A i, j \in 1..Cardinality(S) : i # j => seq[i] # seq[j]}

\* The keys of self._browser_instances.
Tracked == {p \in Profiles : is_running(p)}

\* stop_profile without the inner try, resumed by cleanup(): the exception of
\* __aexit__ reaches the outer handler, which returns False before the
\* cleanup and before the callback.
stop_profile_rest_unguarded(b, st, r, raised) ==
    LET p == r.pid
        b1 == IF raised THEN b ELSE cleanup_profile(b, p)
        r1 == IF raised THEN r
              ELSE [r EXCEPT !.in_browsers = FALSE, !.in_instances = FALSE,
                             !.in_pages = FALSE]
        r2 == [r1 EXCEPT !.stoppers = @ - 1,
                         !.stop = [n |-> @.n + 1,
                                   returned |-> IF raised THEN "false" ELSE "true",
                                   cb_stopped |-> ~raised,
                                   running_after |-> is_running_in(b1, p)]]
    IN [launches |-> Replace(b1, r1, r2),
        status |-> IF raised THEN st ELSE on_status_change(st, p, STOPPED),
        cleaned |-> ~raised]

\* stop_profile from the return (or the exception) of __aexit__ on session r
\* to its own return (lines 687-693), for a caller that does not refresh the
\* table. cleaned: _cleanup_profile was reached.
stop_profile_rest(b, st, r, raised) ==
    LET p == r.pid
        b1 == cleanup_profile(b, p)
        r1 == [r EXCEPT !.in_browsers = FALSE, !.in_instances = FALSE, !.in_pages = FALSE]
        r2 == [r1 EXCEPT !.stoppers = @ - 1,
                         !.stop = [n |-> @.n + 1, returned |-> "true", cb_stopped |-> TRUE,
                                   running_after |-> is_running_in(b1, p)]]
    IN [launches |-> Replace(b1, r1, r2),
        status |-> on_status_change(st, p, STOPPED),
        cleaned |-> TRUE]

\* The loop of cleanup() from keys[i] on, up to its next suspension: a
\* profile with an entry in self._browsers suspends stop_profile in __aexit__
\* (line 686); for any other, stop_profile runs through without suspending.
RECURSIVE cleanup_loop(_, _, _, _, _)
cleanup_loop(b, st, keys, i, handled) ==
    IF i > Len(keys)
    THEN [launches |-> b, status |-> st, i |-> i, handled |-> handled, pc |-> "done"]
    ELSE LET p == keys[i]
             S == {r \in BagToSet(b) : r.pid = p /\ r.in_browsers}
         IN IF S # {}
            THEN LET r == CHOOSE x \in S : TRUE
                 IN [launches |-> Replace(b, r, [r EXCEPT !.stoppers = @ + 1]),
                     status |-> st, i |-> i, handled |-> handled, pc |-> "teardown"]
            ELSE cleanup_loop(cleanup_profile(b, p), on_status_change(st, p, STOPPED),
                              keys, i + 1, handled \cup {p})

\* The first step of cleanup(): the snapshot of the keys and the loop up to
\* the first teardown.
CleanupStart(keys) ==
    /\ cleanup.pc = "idle"
    /\ keys \in Orders(Tracked)
    /\ LET res == cleanup_loop(launches, status, keys, 1, {})
       IN /\ launches' = res.launches
          /\ status' = res.status
          /\ cleanup' = [cleanup EXCEPT !.pc = res.pc, !.keys = keys, !.i = res.i,
                                        !.handled = res.handled,
                                        !.quiet = \A r \in Sessions : r.pc = "done"]
    /\ UNCHANGED page
    /\ UNCHANGED fp_vars
    /\ UNCHANGED <<sanitize, batch>>

\* The awaited __aexit__ never returns: nothing in cleanup() or stop_profile
\* bounds the wait.
TeardownHangs ==
    /\ cleanup.pc = "teardown"
    /\ ~cleanup.hung
    /\ cleanup' = [cleanup EXCEPT !.hung = TRUE]
    /\ UNCHANGED life_vars
    /\ UNCHANGED fp_vars
    /\ UNCHANGED <<sanitize, batch>>

\* __aexit__ returned, or raised, in the stop_profile that cleanup() awaits:
\* that stop_profile finishes and the loop goes on with the next key.
CleanupResume(r, raised) ==
    /\ cleanup.pc = "teardown"
    /\ ~cleanup.hung
    /\ r.pid = cleanup.keys[cleanup.i]
    /\ r.stoppers > 0
    /\ ~raised => r.ctx = "closed"
    /\ LET t == stop_profile_rest(launches, status, r, raised)
           res == cleanup_loop(t.launches, t.status, cleanup.keys, cleanup.i + 1,
                               IF t.cleaned THEN cleanup.handled \cup {r.pid}
                               ELSE cleanup.handled)
       IN /\ launches' = res.launches
          /\ status' = res.status
          /\ cleanup' = [cleanup EXCEPT !.pc = res.pc, !.i = res.i,
                                        !.handled = res.handled,
                                        !.failures = @ + (IF raised THEN 1 ELSE 0)]
    /\ UNCHANGED page
    /\ UNCHANGED fp_vars
    /\ UNCHANGED <<sanitize, batch>>

\* Once the window is closed its handlers start no further launch; the
\* launches in flight go on.
ShutdownNext ==
    \/ /\ cleanup.pc = "idle"
       /\ \E p \in Profiles, fail \in {"none", "mkdir", "record", "fingerprint"} :
            StartProfile(p, fail)
    \/ \E r \in Sessions, ok \in BOOLEAN : LaunchOptionsDone(r, ok)
    \/ \E r \in Sessions, ok \in BOOLEAN, has_pages \in BOOLEAN, nav \in BOOLEAN :
            EngineStarted(r, ok, has_pages, nav)
    \/ \E r \in Sessions, ok \in BOOLEAN, nav \in BOOLEAN : NewPageDone(r, ok, nav)
    \/ \E r \in Sessions : GotoDone(r)
    \/ \E r \in Sessions : UserClose(r)
    \/ \E r \in Sessions : MonitorWake(r)
    \/ \E r \in Sessions : TeardownCloses(r)
    \/ \E keys \in Orders(Tracked) : CleanupStart(keys)
    \/ TeardownHangs
    \/ \E r \in Sessions, raised \in BOOLEAN : CleanupResume(r, raised)

SpecShutdown == Init /\ [][ShutdownNext]_vars

\* The event loop resumes a coroutine whose awaited call has completed; the
\* engine finishes a teardown it has begun unless that teardown hangs.
ShutdownFairness ==
    /\ WF_vars(\E r \in Sessions, raised \in BOOLEAN : CleanupResume(r, raised))
    /\ WF_vars(\E r \in Sessions : TeardownCloses(r))

SpecShutdownFair == Init /\ [][ShutdownNext]_vars /\ ShutdownFairness

(***************************************************************************)
(* The record file next to the sessions of its profile: SpecRecord follows *)
(* the launches, window closes and edits of one profile together with its  *)
(* fingerprint.json. Of fp_launch it keeps what the first step of the last *)
(* launch resolved.                                                        *)
(***************************************************************************)

\* The profile whose record fp_file is.
Followed == "p1"

\* _start_profile of the followed profile up to the first suspension of
\* launch_profile: the guards and STARTING (app.py 794-803), then the record
\* is looked up, read, unlinked or written (launcher.py 288-306, 483-502).
\* The launch fails in this step exactly when resolving the record failed.
StartFollowed(fail, geo) ==
    /\ resolve_fingerprint(fail, geo)
    /\ start_profile(Followed,
                     IF fp_launch'.pc = "failed" THEN fp_launch'.failed_at ELSE "none")
    /\ UNCHANGED <<page, os_type, platform>>
    /\ UNCHANGED aux_vars

RecordInit ==
    /\ LifeInit
    /\ os_type = "macos"
    /\ platform = "linux"
    /\ fp_file \in {NoFile, [exists |-> TRUE, text |-> dumps(StoredRecord)]}
    /\ fp_launch = NoFpLaunch
    /\ AuxIdle

RecordNext ==
    \/ \E fail \in {"none", "mkdir", "fingerprint"}, geo \in {<<>>} :
            StartFollowed(fail, geo)
    \/ \E r \in Sessions, ok \in BOOLEAN : LaunchOptionsDone(r, ok)
    \/ \E r \in Sessions, ok \in BOOLEAN, has_pages \in BOOLEAN, nav \in BOOLEAN :
            EngineStarted(r, ok, has_pages, nav)
    \/ \E r \in Sessions, ok \in BOOLEAN, nav \in BOOLEAN : NewPageDone(r, ok, nav)
    \/ \E r \in Sessions : GotoDone(r)
    \/ \E r \in Sessions : UserClose(r)
    \/ \E r \in Sessions : MonitorWake(r)
    \/ \E o \in {"macos", "windows"}, should_regenerate \in BOOLEAN :
            EditProfile(o, should_regenerate)

SpecRecord == RecordInit /\ [][RecordNext]_vars

(***************************************************************************)
(* The sanitizer on its own: SpecEnv applies                               *)
(* _remove_screen_window_keys_from_env once to an env drawn from the       *)
(* documents, splits and platforms below.                                  *)
(***************************************************************************)
\* Members (and whitespace) between the braces of a document
MaxMembers == 2

\* What a document is made of: members, among them a repeated key, an
\* excluded key and a key next to the exclusion set, and whitespace.
DocTokens ==
    {<<"a", 1>>, <<"a", 2>>, <<"b", 1>>, <<"screen.width", 1920>>,
     <<"window.devicePixelRatio", 1>>, Space}

Bodies == UNION {[1..n -> DocTokens] : n \in 0..MaxMembers}

\* JSON objects, and the same texts cut short before the closing brace.
Documents ==
    {<<LBrace>> \o body \o <<RBrace>> : body \in Bodies}
        \cup {<<LBrace>> \o body : body \in Bodies}

\* Every way of cutting text into consecutive non-empty chunks.
RECURSIVE Splits(_)
Splits(text) ==
    IF text = <<>> THEN {<<>>}
    ELSE UNION {{<<SubSeq(text, 1, k)>> \o rest :
                    rest \in Splits(SubSeq(text, k + 1, Len(text)))} :
                k \in 1..Len(text)}

\* The entries of the env next to the slots: none, or one variable.
OtherEntries == {<<>>, << <<<<"MOZ_HEADLESS", 0>>, << <<"1", 1>> >> >> >>}

\* The envs handed to the sanitizer: no slot at all, or a document in slots
\* 1..k.
Envs ==
    {set_chunks(other, chunks, 1) :
        other \in OtherEntries,
        chunks \in {<<>>} \cup UNION {Splits(doc) : doc \in Documents}}

EnvInit ==
    /\ LifeInit
    /\ FpIdle
    /\ cleanup = NoCleanup
    /\ batch = NoBatch
    /\ sanitize \in {[pc |-> "ready", env |-> e, plat |-> pl, out |-> <<>>] :
                        e \in Envs, pl \in Platforms}

\* One call: from_options["env"] = _remove_screen_window_keys_from_env(env)
Sanitize ==
    /\ sanitize.pc = "ready"
    /\ sanitize' = [sanitize EXCEPT
                        !.pc = "done",
                        !.out = remove_screen_window_keys_from_env(sanitize.env,
                                                                   sanitize.plat)]
    /\ UNCHANGED life_vars
    /\ UNCHANGED fp_vars
    /\ UNCHANGED <<cleanup, batch>>

EnvNext == Sanitize

SpecEnv == EnvInit /\ [][EnvNext]_vars

(***************************************************************************)
(* Batch start: _batch_start_profiles spawns start_all(), which gathers    *)
(* one start_one task per selected profile; each runs _start_profile       *)
(* inside "async with semaphore". SpecBatch follows the tasks and the      *)
(* semaphore; what _start_profile does to the profile is in Spec.          *)
(***************************************************************************)

\* The semaphore lets every caller through.
semaphore_never_locked(b) == FALSE

\* asyncio.Semaphore.locked(): no slot left, or somebody is queued already.
semaphore_locked(b) == b.value = 0 \/ b.waiters # <<>>

\* _batch_start_profiles(profile_ids) and the first step of start_all: a
\* start_one task for each of the first n selected profiles that
\* _safe_get_profile finds, then gather.
BatchStart(n, missing) ==
    /\ batch.pc = "idle"
    /\ missing \subseteq 1..n
    /\ batch' = [batch EXCEPT
                    !.pc = IF missing = 1..n THEN "done" ELSE "running",
                    !.task = [i \in BatchIds |->
                                IF i \in (1..n) \ missing THEN "ready" ELSE "none"]]
    /\ UNCHANGED life_vars
    /\ UNCHANGED fp_vars
    /\ UNCHANGED <<cleanup, sanitize>>

\* The first step of start_one for profile i; the event loop runs the tasks
\* in the order gather created them. "async with semaphore" takes a slot
\* and _start_profile is entered, or the task queues on the semaphore.
StartOneEnter(i) ==
    /\ batch.task[i] = "ready"
    /\ \A j \in 1..(i - 1) : batch.task[j] # "ready"
    /\ batch' = IF semaphore_locked(batch)
                THEN [batch EXCEPT !.task[i] = "waiting", !.waiters = Append(@, i)]
                ELSE [batch EXCEPT !.task[i] = "starting", !.value = @ - 1]
    /\ UNCHANGED life_vars
    /\ UNCHANGED fp_vars
    /\ UNCHANGED <<cleanup, sanitize>>

\* _start_profile of profile i has returned, whatever the launch did: the
\* "async with" releases the slot, which goes to the oldest waiter if there
\* is one; when the last task ends, gather and start_all end.
StartOneLeave(i) ==
    /\ batch.task[i] = "starting"
    /\ LET b1 == [batch EXCEPT !.task[i] = "done"]
           b2 == IF b1.waiters # <<>>
                 THEN [b1 EXCEPT !.task[Head(b1.waiters)] = "woken",
                                 !.waiters = Tail(@)]
                 ELSE [b1 EXCEPT !.value = @ + 1]
       IN batch' = [b2 EXCEPT !.pc = IF \A j \in BatchIds : b2.task[j] \in {"none", "done"}
                                     THEN "done" ELSE "running"]
    /\ UNCHANGED life_vars
    /\ UNCHANGED fp_vars
    /\ UNCHANGED <<cleanup, sanitize>>

\* A task that was given a slot resumes in acquire() and enters
\* _start_profile.
StartOneResume(i) ==
    /\ batch.task[i] = "woken"
    /\ batch' = [batch EXCEPT !.task[i] = "starting"]
    /\ UNCHANGED life_vars
    /\ UNCHANGED fp_vars
    /\ UNCHANGED <<cleanup, sanitize>>

BatchNext ==
    \/ \E n \in 0..BatchSize, missing \in SUBSET {1} : BatchStart(n, missing)
    \/ \E i \in BatchIds : StartOneEnter(i)
    \/ \E i \in BatchIds : StartOneLeave(i)
    \/ \E i \in BatchIds : StartOneResume(i)

SpecBatch == Init /\ [][BatchNext]_vars

(***************************************************************************)
(* Properties of the session lifecycle                                     *)
(***************************************************************************)

\* The launch_profile coroutines of p that satisfy P, counted with
\* multiplicity.
CountOf(p, P(_)) ==
    LET S == {r \in Sessions : r.pid = p /\ P(r)}
    IN SumOver(S, [r \in S |-> launches[r]])

InFlight(r) == r.pc # "done"
BrowserOpen(r) == r.ctx = "open"
Busy(r) == InFlight(r) \/ BrowserOpen(r)

\* C1: per profile id, a launch request made while a launch of that id is in
\* flight or while its session runs is rejected: never are two launches of one
\* id in flight or their browsers open at the same time.
C1_Exclusivity == \A p \in Profiles : CountOf(p, Busy) <= 1

\* C2: launch_profile never raises; when it returns false it has made the
\* ERROR callback, whatever step failed, and when it returns true it has made
\* the RUNNING callback.
C2_LaunchNeverRaises ==
    \A r \in Sessions :
        /\ r.result # "raised"
        /\ r.pc = "done" => r.result \in {"true", "false"}
        /\ r.result = "false" => ERROR \in r.cbs
        /\ r.result = "true" => RUNNING \in r.cbs

\* A launch that failed after the engine had started (page creation, the
\* context exists) next to one that failed before it.
C2_Witness ==
    /\ \E r \in Sessions : r.result = "false" /\ r.ctx # "none" /\ ERROR \in r.cbs
    /\ \E r \in Sessions : r.result = "false" /\ r.ctx = "none" /\ ERROR \in r.cbs

\* C3: when is_running(p) is false, no browser that launch_profile started
\* for p is still open, unless a stop_profile went through its teardown.
C3_AbsenceAuthoritative ==
    \A p \in Profiles :
        ~is_running(p) =>
            ~\E r \in Sessions : r.pid = p /\ r.ctx = "open" /\ r.stop.n = 0

\* C4: on_browser_closed is never called for a session whose context was
\* closed by the teardown of stop_profile.
C4_ClosedOnlyIfNotStopped ==
    \A r \in Sessions : r.closed_cb > 0 => r.closer # "stop"

\* C5: every stop_profile call on a tracked session returns true, after the
\* STOPPED callback, with the handle removed, also when __aexit__ raised.
C5_StopBestEffort ==
    \A r \in Sessions :
        r.stop.n > 0 =>
            /\ r.stop.returned = "true"
            /\ r.stop.cb_stopped
            /\ ~r.stop.running_after

\* A stop_profile that returned although the browser is still open: its
\* __aexit__ raised.
C5_Witness ==
    \E r \in Sessions : r.stop.n > 0 /\ r.ctx = "open" /\ ~is_running(r.pid)

(***************************************************************************)
(* Properties of the fingerprint stage                                     *)
(***************************************************************************)

\* [d[k]] if k is in d, else []
Opt(d, k) == IF Has(d, k) THEN <<Get(d, k)>> ELSE <<>>

\* The file holds a record that parses.
Usable(file) == file.exists /\ loads(file.text).ok
RecordOf(file) == loads(file.text).value
RecordFingerprint(file) ==
    IF Has(RecordOf(file), "fingerprint")
    THEN loads(Get(RecordOf(file), "fingerprint")).value ELSE <<>>
RecordOs(file) == IF Has(RecordOf(file), "os") THEN Get(RecordOf(file), "os") ELSE ""

\* GPU pair, canvas offset, font-spacing seed, history length and user agent
\* of a record, and of what a launch hands to the launch step.
RecordIdentity(file) ==
    <<Opt(RecordOf(file), "webgl"), Opt(RecordOf(file), "canvas"),
      Opt(RecordOf(file), "fonts"), Opt(RecordOf(file), "history_length"),
      Opt(RecordFingerprint(file), "navigator.userAgent")>>
ConfigIdentity(l) ==
    <<IF l.webgl_config = <<>> THEN <<>> ELSE <<l.webgl_config>>,
      Opt(l.config, "canvas:aaOffset"), Opt(l.config, "fonts:spacing_seed"),
      Opt(l.config, "window.history.length"),
      Opt(l.config, "navigator.userAgent")>>

\* This step is a launch_profile call running its fingerprint stage.
Resolved ==
    /\ fp_launch' # fp_launch
    /\ \/ fp_launch'.pc = "options"
       \/ fp_launch'.pc = "failed" /\ fp_launch'.failed_at # "options"

\* The launch has handed a config to the launch step.
ConfigHanded == fp_launch.pc \in {"options", "aenter"} \/ fp_launch.failed_at = "options"

\* The record on disk was written by the generate branch.
WrittenByLaunch == Usable(fp_file) /\ Has(RecordFingerprint(fp_file), "canvas:aaOffset")

\* C6: a launch that finds a record for the profile's current OS leaves the
\* identity fields of the record (GPU pair, canvas offset, font seed, history
\* length, user agent) as they were, and hands exactly those to the launch
\* step, whatever the geo lookup returned and whether or not the launch fails.
C6_IdentityStable ==
    [][(Resolved /\ Usable(fp_file) /\ RecordOs(fp_file) = os_or_windows(os_type)) =>
            /\ Usable(fp_file')
            /\ RecordIdentity(fp_file') = RecordIdentity(fp_file)
            /\ fp_launch'.pc = "options" /\ ConfigIdentity(fp_launch') = RecordIdentity(fp_file)
      ]_vars

\* A second launch of a profile whose record the first launch wrote, with
\* another geo result than the one stored.
C6_Witness ==
    /\ fp_launch.branch = "load"
    /\ WrittenByLaunch
    /\ fp_launch.geo # <<>>
    /\ Opt(RecordFingerprint(fp_file), "timezone") # Opt(fp_launch.config, "timezone")
    /\ ConfigIdentity(fp_launch) = RecordIdentity(fp_file)

\* C7: whenever the geo lookup of a launch succeeded, the timezone of the
\* config handed to the launch step is the timezone of that lookup, in the
\* load branch and in the generate branch.
C7_TimezoneFresh ==
    (ConfigHanded /\ fp_launch.geo # <<>>) =>
        Opt(fp_launch.config, "timezone") = <<fp_launch.geo[1].timezone>>

\* Stored Europe/Warsaw, looked up Europe/Berlin: the config says Berlin.
C7_Witness ==
    /\ fp_launch.branch = "load"
    /\ ConfigHanded
    /\ WrittenByLaunch
    /\ Opt(RecordFingerprint(fp_file), "timezone") = <<"Europe/Warsaw">>
    /\ fp_launch.geo # <<>>
    /\ fp_launch.geo[1].timezone = "Europe/Berlin"
    /\ Opt(fp_launch.config, "timezone") = <<"Europe/Berlin">>

\* C8: a launch that finds a record file that does not parse regenerates the
\* record and goes on; it does not fail on the file.
C8_CorruptTreatedAsAbsent ==
    fp_launch.found = "corrupt" =>
        /\ fp_launch.branch = "generate"
        /\ fp_launch.failed_at # "record"

\* C9: a launch that finds a record for an OS other than the profile's
\* os_type leaves no record for the old OS; when its fingerprint stage
\* completes, the record on disk names the new OS, and its GPU pair and user
\* agent are those generated for the new OS.
C9_OsChangeRegenerates ==
    [][(Resolved /\ Usable(fp_file) /\ RecordOs(fp_file) # os_or_windows(os_type)) =>
            /\ fp_file'.exists =>
                    Usable(fp_file') /\ RecordOs(fp_file') = os_or_windows(os_type)
            /\ fp_launch'.pc = "options" =>
                    /\ fp_file'.exists
                    /\ fp_launch'.branch = "generate"
                    /\ Get(RecordOf(fp_file'), "webgl") \in sample_webgl(os_short_map(os_type))
                    /\ Opt(RecordFingerprint(fp_file'), "navigator.userAgent")
                            = <<UserAgent(os_type, "135.0")>>
                    /\ ConfigIdentity(fp_launch') = RecordIdentity(fp_file')
      ]_vars

\* A record for linux on disk after a launch that found one for another OS.
C9_Witness ==
    /\ fp_launch.regenerate
    /\ fp_launch.pc = "aenter"
    /\ fp_launch.os = "linux"
    /\ Usable(fp_file)
    /\ RecordOs(fp_file) = "linux"
    /\ Get(RecordOf(fp_file), "webgl") \in sample_webgl("lin")

\* C10: after every launch, neither the record on disk nor the config carried
\* by the CAMOU_CONFIG slots handed to the engine holds a key of
\* SCREEN_WINDOW_KEYS_TO_EXCLUDE.
C10_ExclusionInvariant ==
    /\ (ConfigHanded /\ Usable(fp_file)) =>
            Keys(RecordFingerprint(fp_file)) \cap SCREEN_WINDOW_KEYS_TO_EXCLUDE = {}
    /\ fp_launch.pc = "aenter" =>
            Keys(loads(join(collect_chunks(fp_launch.env, 1))).value)
                \cap SCREEN_WINDOW_KEYS_TO_EXCLUDE = {}

(***************************************************************************)
(* Properties of the caller-visible status and of the callbacks            *)
(***************************************************************************)

\* C11: a profile's status becomes RUNNING only from STARTING, and leaves
\* RUNNING only for STOPPED or ERROR, whatever is started, stopped, closed or
\* refreshed.
C11_StatusMachine ==
    [][\A p \in Profiles :
            /\ (status'[p] = RUNNING /\ status[p] # RUNNING) => status[p] = STARTING
            /\ (status[p] = RUNNING /\ status'[p] # RUNNING) =>
                    status'[p] \in {STOPPED, ERROR}
      ]_vars

\* C12: the status callback is made on every transition of a session: on
\* entering STARTING, on reaching RUNNING, on failing to ERROR, on STOPPED
\* after stop_profile and on STOPPED after the monitor saw the window close.
C12_CallbackOnEveryTransition ==
    \A r \in Sessions :
        /\ STARTING \in r.cbs
        /\ r.result = "true" => RUNNING \in r.cbs
        /\ r.result = "false" => ERROR \in r.cbs
        /\ r.stop.n > 0 => r.stop.cb_stopped
        /\ (r.monitor = "done" /\ r.closed_cb > 0) => STOPPED \in r.cbs

\* C13: while a stop_profile is tearing a session down is_stopping holds for
\* its profile, no second stop_profile enters the teardown, and the session is
\* reported STOPPED by one stop_profile only.
C13_StoppingGuardsReentry ==
    \A r \in Sessions :
        /\ r.stoppers > 0 => is_stopping(r.pid)
        /\ r.stoppers <= 1
        /\ r.stop.n <= 1

\* The launch_profile calls for p in the bag b that returned false.
FailedLaunches(b, p) ==
    LET S == {r \in BagToSet(b) : r.pid = p /\ r.result = "false"}
    IN SumOver(S, [r \in S |-> b[r]])

\* C14: once a launch_profile call for p has returned false and its caller
\* has handled the return, the status of p is ERROR.
C14_FailedLaunchShowsError ==
    [][\A p \in Profiles :
            FailedLaunches(launches', p) > FailedLaunches(launches, p) =>
                status'[p] = ERROR
      ]_vars

(***************************************************************************)
(* Properties of the shutdown                                              *)
(***************************************************************************)

\* C15: when cleanup() has completed, stop_profile has run through its
\* cleanup for every profile that was in the handle table when cleanup() was
\* called, whether or not a teardown raised on the way; and if no launch was
\* in flight then, the handle table is empty.
C15_CleanupStopsAll ==
    cleanup.pc = "done" =>
        /\ cleanup.handled = {cleanup.keys[k] : k \in 1..Len(cleanup.keys)}
        /\ cleanup.quiet => \A r \in Sessions : ~r.in_instances /\ ~r.in_browsers

\* cleanup() has completed over two tracked profiles with no launch around,
\* and one of the teardowns raised.
C15_Witness ==
    /\ cleanup.pc = "done"
    /\ Len(cleanup.keys) = 2
    /\ cleanup.failures > 0
    /\ cleanup.quiet

\* C16: shutdown terminates: once cleanup() waits for a teardown it
\* eventually completes, whether or not that teardown ever returns.
C16_ShutdownTerminates == (cleanup.pc = "teardown") ~> (cleanup.pc = "done")

(***************************************************************************)
(* Properties of the record file and its sessions                          *)
(***************************************************************************)

\* C17: the record of a profile is looked up by a launch, written or deleted
\* only in steps that begin with no handle registered for that profile.
C17_RecordOnlyWithoutHandle ==
    [][(fp_file' # fp_file \/ fp_launch' # fp_launch) => ~is_running(Followed)]_vars

(***************************************************************************)
(* Properties of the sanitizer                                             *)
(***************************************************************************)
\* The slot values of an env in slot order, their concatenation, and the
\* parse of it.
ChunksOf(env) == collect_chunks(env, 1)
TextOf(env) == join(ChunksOf(env))
ConfigOf(env) == loads(TextOf(env))
\* The call re-split: there were slots and their concatenation parsed.
Resplit == sanitize.pc = "done" /\ ChunksOf(sanitize.env) # <<>> /\ ConfigOf(sanitize.env).ok
SlotNames(env) == {n \in Keys(env) : n[1] = "CAMOU_CONFIG_"}

\* C18: when the slots hold a JSON document without any excluded key, the
\* concatenation of the slots returned equals the concatenation of the slots
\* given, token for token.
C18_ChunkRoundTrip ==
    (Resplit /\ Keys(ConfigOf(sanitize.env).value) \cap SCREEN_WINDOW_KEYS_TO_EXCLUDE = {})
        => TextOf(sanitize.out) = TextOf(sanitize.env)

\* C19: after a re-split the config carried by the slots returned has the
\* keys of the config given minus the exclusion set, each with the value it
\* had; and whatever the call did, the entries of the env that are not slots
\* are the ones given, with their values.
C19_FilterFrame ==
    sanitize.pc = "done" =>
        /\ Resplit =>
            LET given == ConfigOf(sanitize.env).value
                kept == ConfigOf(sanitize.out)
            IN /\ kept.ok
               /\ Keys(kept.value) = Keys(given) \ SCREEN_WINDOW_KEYS_TO_EXCLUDE
               /\ \A k \in Keys(kept.value) : Get(kept.value, k) = Get(given, k)
        /\ Keys(sanitize.out) \ SlotNames(sanitize.out)
                = Keys(sanitize.env) \ SlotNames(sanitize.env)
        /\ \A n \in Keys(sanitize.env) \ SlotNames(sanitize.env) :
                Get(sanitize.out, n) = Get(sanitize.env, n)

\* A config with an excluded key, a key next to the exclusion set and a
\* variable beside the slots went through the re-split.
C19_Witness ==
    /\ Resplit
    /\ Keys(ConfigOf(sanitize.env).value) = {"screen.width", "window.devicePixelRatio"}
    /\ Keys(ConfigOf(sanitize.out).value) = {"window.devicePixelRatio"}
    /\ Keys(sanitize.env) \ SlotNames(sanitize.env) # {}

\* C20: after a re-split the slots returned are numbered 1..n with n >= 1,
\* each holds at most the chunk size of the platform and all but the last
\* exactly that size; no other slot is left in the env.
C20_SlotProtocol ==
    Resplit =>
        LET n == Cardinality(SlotNames(sanitize.out))
            size == chunk_size(sanitize.plat)
        IN /\ n >= 1
           /\ SlotNames(sanitize.out) = {CAMOU_CONFIG(j) : j \in 1..n}
           /\ \A j \in 1..n :
                /\ Len(Get(sanitize.out, CAMOU_CONFIG(j))) <= size
                /\ j < n => Len(Get(sanitize.out, CAMOU_CONFIG(j))) = size

\* A re-split that returned two slots where four were given.
C20_Witness ==
    /\ Resplit
    /\ Cardinality(SlotNames(sanitize.env)) = 4
    /\ Cardinality(SlotNames(sanitize.out)) = 2

\* C21: a call whose slots do not concatenate to a parseable document never
\* returns an env: it raises.
C21_MalformedRaises ==
    (ChunksOf(sanitize.env) # <<>> /\ ~ConfigOf(sanitize.env).ok) => sanitize.pc # "done"

(***************************************************************************)
(* Properties of the geo lookup                                            *)
(***************************************************************************)
\* The lookups that succeed, as launch_profile keeps them.
GeoInfos == {<<GeoIPInfoCompat(g)>> : g \in Geolocations}

\* C22: a launch whose geo lookup failed fails only for a reason of its own
\* (the directory, an unparseable record, the generator); when it goes on,
\* the identity fields it hands to the launch step are the ones it would
\* hand over after any successful lookup.
C22_GeoFailureNonFatal ==
    [][(Resolved /\ fp_launch'.geo = <<>>) =>
            /\ fp_launch'.pc = "failed" =>
                    \/ fp_launch'.failed_at \in {"mkdir", "fingerprint"}
                    \/ fp_file.exists /\ ~loads(fp_file.text).ok
            /\ (fp_launch'.pc = "options" /\ fp_launch'.branch = "load") =>
                    \A info \in GeoInfos :
                        ConfigIdentity([config |-> load_fingerprint(RecordOf(fp_file), info),
                                        webgl_config |-> fp_launch'.webgl_config])
                            = ConfigIdentity(fp_launch')
            /\ (fp_launch'.pc = "options" /\ fp_launch'.branch = "generate") =>
                    \A fingerprint \in Fingerprints, noise \in Noise, info \in GeoInfos :
                        generate_fingerprint(os_or_windows(os_type), fingerprint, noise, <<>>)
                                = fp_launch'.config =>
                            ConfigIdentity(
                                [config |-> generate_fingerprint(os_or_windows(os_type),
                                                                 fingerprint, noise, info),
                                 webgl_config |-> fp_launch'.webgl_config])
                                = ConfigIdentity(fp_launch')
      ]_vars

\* A launch went on from a stored record after its lookup had failed.
C22_Witness ==
    /\ fp_launch.geo = <<>>
    /\ fp_launch.pc = "options"
    /\ fp_launch.branch = "load"
    /\ Has(fp_launch.config, "canvas:aaOffset")

(***************************************************************************)
(* Properties of the sessions of one profile                               *)
(***************************************************************************)

\* C23: the monitor task of a session calls on_browser_closed at most once,
\* and exactly once when it has run after the user closed the window and no
\* stop_profile ever waited for the teardown of that session.
C23_ClosedCallbackOnce ==
    \A r \in Sessions :
        /\ r.closed_cb <= 1
        /\ (r.monitor = "done" /\ r.closer = "user" /\ r.stoppers = 0 /\ r.stop.n = 0)
                => r.closed_cb = 1

(***************************************************************************)
(* Properties of the geo fields                                            *)
(***************************************************************************)
\* Coordinates in the config c are those of the lookup geo (<<>> or <<info>>)
\* and stand next to its timezone; a lookup that succeeded gives the timezone.
GeoConsistent(c, geo) ==
    /\ (Has(c, "geolocation:latitude") \/ Has(c, "geolocation:longitude")) =>
            /\ geo # <<>>
            /\ Opt(c, "geolocation:latitude") = <<geo[1].lat>>
            /\ Opt(c, "geolocation:longitude") = <<geo[1].lon>>
    /\ geo # <<>> => Opt(c, "timezone") = <<geo[1].timezone>>

\* C24: the config a launch hands to the launch step, and the config carried
\* by the slots given to the engine, take timezone and coordinates from the
\* lookup of that launch only.
C24_GeoConsistency ==
    /\ fp_launch.pc \in {"options", "aenter"} => GeoConsistent(fp_launch.config, fp_launch.geo)
    /\ fp_launch.pc = "aenter" =>
            GeoConsistent(ConfigOf(fp_launch.env).value, fp_launch.geo)

\* A launch loaded a record that carries coordinates after a lookup that
\* gave a timezone and no usable coordinates.
C24_Witness ==
    /\ fp_launch.pc = "aenter"
    /\ fp_launch.branch = "load"
    /\ fp_launch.geo # <<>>
    /\ Usable(fp_file)
    /\ Has(RecordFingerprint(fp_file), "geolocation:latitude")
    /\ ~Has(fp_launch.config, "geolocation:latitude")
    /\ Opt(fp_launch.config, "timezone") = <<"Africa/Accra">>

(***************************************************************************)
(* Properties of the batch start                                           *)
(***************************************************************************)
\* The profiles of the batch inside "async with semaphore".
MidLaunch == {i \in BatchIds : batch.task[i] \in {"starting", "woken"}}

\* C25: at most MaxConcurrentStarts profiles of a batch hold a slot of the
\* semaphore at a time; a profile that waits for a slot always has a start
\* ahead of it whose return will hand one over; and start_all ends only when
\* every task of the batch has gone through _start_profile.
C25_BatchBounded ==
    /\ Cardinality(MidLaunch) <= MaxConcurrentStarts
    /\ (\E i \in BatchIds : batch.task[i] = "waiting") => MidLaunch # {}
    /\ batch.pc = "done" => \A i \in BatchIds : batch.task[i] \in {"none", "done"}

\* The last profile of a full batch is being started, with all slots taken,
\* after it had to wait for one.
C25_Witness ==
    /\ batch.task[BatchSize] = "starting"
    /\ Cardinality(MidLaunch) = MaxConcurrentStarts
    /\ \E i \in BatchIds : batch.task[i] = "done"

(***************************************************************************)
(* Properties of the handle table                                          *)
(***************************************************************************)

\* C26: when a launch_profile call of p returns False, is_running(p) is false
\* in the state it returns to.
C26_FailedLaunchNoHandle ==
    [][\A p \in Profiles :
            FailedLaunches(launches', p) > FailedLaunches(launches, p) =>
                ~is_running_in(launches', p)
      ]_vars

\* Sessions of p in the bag b that satisfy Test.
CountWhere(b, p, Test(_)) ==
    LET S == {r \in BagToSet(b) : r.pid = p /\ Test(r)}
    IN SumOver(S, [r \in S |-> b[r]])
MonitorDone(r) == r.monitor = "done"
\* The handle table holds the context of r, and that context is open.
LiveHandle(r) == r.in_instances /\ r.ctx = "open"

\* C27: a step in which a monitor task of p runs its finally block leaves
\* the handle of every session of p whose context is open where it was (the
\* monitor's own context is closed).
C27_MonitorOwnSessionOnly ==
    [][\A p \in Profiles :
            CountWhere(launches', p, MonitorDone) > CountWhere(launches, p, MonitorDone) =>
                CountWhere(launches', p, LiveHandle) = CountWhere(launches, p, LiveHandle)
      ]_vars

\* stop_profile calls of p that have returned after a teardown.
StopsReturned(b, p) ==
    LET S == {r \in BagToSet(b) : r.pid = p}
    IN SumOver(S, [r \in S |-> b[r] * r.stop.n])
\* The handle table holds the context of r, and no stop_profile has waited
\* or waits for the teardown of r.
FreshHandle(r) == r.in_instances /\ r.stoppers = 0 /\ r.stop.n = 0

\* C28: a step in which stop_profile(p) returns from a teardown leaves the
\* handle of every session of p that it did not tear down, and with such a
\* handle in the table it does not leave p shown as STOPPED.
C28_StopOwnSessionOnly ==
    [][\A p \in Profiles :
            (/\ StopsReturned(launches', p) > StopsReturned(launches, p)
             /\ CountWhere(launches, p, FreshHandle) > 0) =>
                /\ CountWhere(launches', p, FreshHandle)
                        = CountWhere(launches, p, FreshHandle)
                /\ status'[p] # STOPPED
      ]_vars

(***************************************************************************)
(* Properties of the status next to the handle table                       *)
(***************************************************************************)

\* C29: while a launch_profile call of p has not returned, the status of p
\* is STARTING.
C29_StartingSurvives ==
    \A r \in Sessions : r.pc # "done" => status[r.pid] = STARTING

\* Nothing of p is under way: every launch_profile call has returned, no
\* stop_profile waits for a teardown, no monitor task has a close event to
\* handle.
AtRest(p) ==
    \A r \in Sessions :
        r.pid = p =>
            /\ r.pc = "done"
            /\ r.stoppers = 0
            /\ ~(r.monitor = "waiting" /\ r.ctx = "closed")

\* C30: when nothing of p is under way, p is shown RUNNING exactly when
\* is_running(p).
C30_StatusHandleAgreement ==
    \A p \in Profiles : AtRest(p) => (status[p] = RUNNING <=> is_running(p))

====
